---- MODULE Spec2Model ----
(***************************************************************************)
(* Model of src/bk/zaai.py (class ZAIClient): credential resolution,       *)
(* identity extraction, request signing, request assembly, the streaming   *)
(* line decoder and the non-streaming aggregator.                          *)
(*                                                                         *)
(* Text is a sequence of code points and a byte string a sequence of       *)
(* integers 0..255, so that decoding, prefix tests, trimming, base64 and   *)
(* JSON parsing are computed rather than assumed.                          *)
(***************************************************************************)
EXTENDS Integers, Sequences, FiniteSets, TLC

(***************************************************************************)
(* Text literals                                                           *)
(***************************************************************************)
AsciiLow == " !\"#$%&'()*+,-./0123456789:;<=>?@ABCDEFGHIJKLMNOPQRSTUVWXYZ[\\]^_"
AsciiHigh == "abcdefghijklmnopqrstuvwxyz{|}~"

\* code point of a one-character string
Ord(c) ==
  IF \E i \in 1..Len(AsciiLow) : SubSeq(AsciiLow, i, i) = c
  THEN 31 + (CHOOSE i \in 1..Len(AsciiLow) : SubSeq(AsciiLow, i, i) = c)
  ELSE 96 + (CHOOSE i \in 1..Len(AsciiHigh) : SubSeq(AsciiHigh, i, i) = c)

\* the text (sequence of code points) written by a string literal
S(str) == [i \in 1..Len(str) |-> Ord(SubSeq(str, i, i))]

NL == <<10>>

\* concatenation of pieces[lo..hi], halving the range
\* F at the value of x
With(x, F(_)) == CHOOSE r \in {F(v) : v \in {x}} : TRUE

RECURSIVE FlattenRange(_, _, _)
FlattenRange(pieces, lo, hi) ==
  IF lo > hi THEN <<>>
  ELSE IF lo = hi THEN pieces[lo]
  ELSE LET mid == (lo + hi) \div 2 IN
       FlattenRange(pieces, lo, mid) \o FlattenRange(pieces, mid + 1, hi)

Concat(parts) == FlattenRange(parts, 1, Len(parts))

StartsWith(s, p) == Len(s) >= Len(p) /\ SubSeq(s, 1, Len(p)) = p

\* s[n:] of Python, n counted from 0
DropFirst(s, n) == IF Len(s) <= n THEN <<>> ELSE SubSeq(s, n + 1, Len(s))

\* needle in haystack
Contains(hay, needle) ==
  \E i \in 0..(Len(hay) - Len(needle)) :
     SubSeq(hay, i + 1, i + Len(needle)) = needle

\* str.lower() on the ASCII range
LowerChar(c) == IF c >= 65 /\ c <= 90 THEN c + 32 ELSE c
\* no case folding
LowerAsIs(s) == s
Lower(s) == [i \in 1..Len(s) |-> LowerChar(s[i])]

\* characters removed by str.strip()
IsSpace(c) == c \in {9, 10, 11, 12, 13, 28, 29, 30, 31, 32, 133, 160}

RECURSIVE LStrip(_)
LStrip(s) == IF s # <<>> /\ IsSpace(Head(s)) THEN LStrip(Tail(s)) ELSE s

RECURSIVE RStrip(_)
RStrip(s) ==
  IF s # <<>> /\ IsSpace(s[Len(s)]) THEN RStrip(SubSeq(s, 1, Len(s) - 1)) ELSE s

Strip(s) == RStrip(LStrip(s))

\* str(n) for an integer
RECURSIVE NatToStr(_)
NatToStr(n) ==
  IF n < 10 THEN <<48 + n>> ELSE NatToStr(n \div 10) \o <<48 + (n % 10)>>

IntToStr(n) == IF n < 0 THEN <<45>> \o NatToStr(0 - n) ELSE NatToStr(n)

\* str.split(sep) for a one-character separator
Split(s, sep) ==
  LET at == {i \in 1..Len(s) : s[i] = sep}
      n == Cardinality(at)
      cut == [k \in 0..(n + 1) |->
                IF k = 0 THEN 0
                ELSE IF k = n + 1 THEN Len(s) + 1
                ELSE CHOOSE i \in at : Cardinality({j \in at : j < i}) = k - 1]
  IN [k \in 1..(n + 1) |-> SubSeq(s, cut[k - 1] + 1, cut[k] - 1)]

(***************************************************************************)
(* bytes.decode('utf-8') and bytes.decode('latin-1').  The decoder covers  *)
(* one- and two-byte sequences; every other lead byte is an error, which   *)
(* is exact for the byte alphabet of the inputs (no byte in 0xE0..0xF4).   *)
(***************************************************************************)
IsCont(b) == b >= 128 /\ b <= 191
IsLead2(b) == b >= 194 /\ b <= 223

\* bs[i] opens a well-formed two-byte sequence
Utf8Pair(bs, i) == IsLead2(bs[i]) /\ i < Len(bs) /\ IsCont(bs[i + 1])

\* what the byte at i adds to the decoded text
Utf8Piece(bs, i) ==
  IF bs[i] < 128 THEN <<bs[i]>>
  ELSE IF Utf8Pair(bs, i) THEN <<(bs[i] - 192) * 64 + (bs[i + 1] - 128)>>
  ELSE <<>>

\* a byte that belongs to no well-formed sequence
Utf8Bad(bs, i) ==
  /\ bs[i] >= 128
  /\ ~Utf8Pair(bs, i)
  /\ ~(IsCont(bs[i]) /\ i > 1 /\ Utf8Pair(bs, i - 1))

\* errors is "strict" (raise) or "ignore" (drop the offending byte)
Utf8Decode(bs, errors) ==
  IF errors = "strict" /\ \E i \in 1..Len(bs) : Utf8Bad(bs, i)
  THEN [ok |-> FALSE, text |-> <<>>]
  ELSE [ok |-> TRUE, text |-> Concat([i \in 1..Len(bs) |-> Utf8Piece(bs, i)])]

\* latin-1 maps every byte to the code point of the same value; never fails
Latin1Decode(bs) == [i \in 1..Len(bs) |-> bs[i]]

(***************************************************************************)
(* json.loads: objects, arrays, strings without escapes, integers, true,   *)
(* false, null; the inputs contain no escapes, fractions or exponents.     *)
(* A value is [t, v]; an object's v is its sequence of <<key, value>>.     *)
(***************************************************************************)
JNull == [t |-> "null", v |-> 0]
JBool(b) == [t |-> "bool", v |-> b]
JNum(n) == [t |-> "num", v |-> n]
JStr(s) == [t |-> "str", v |-> s]
JArr(xs) == [t |-> "arr", v |-> xs]
JObj(ps) == [t |-> "obj", v |-> ps]

JFail == [ok |-> FALSE, val |-> JNull, next |-> 0]
JOk(val, next) == [ok |-> TRUE, val |-> val, next |-> next]

IsJsonWs(c) == c \in {32, 9, 10, 13}
IsDigit(c) == c >= 48 /\ c <= 57

RECURSIVE SkipWs(_, _)
SkipWs(s, i) == IF i <= Len(s) /\ IsJsonWs(s[i]) THEN SkipWs(s, i + 1) ELSE i

\* s[i] is the opening quote; the string runs to the next quote
ScanString(s, i) ==
  LET quotes == {j \in (i + 1)..Len(s) : s[j] = 34} IN
  IF quotes = {} THEN JFail
  ELSE LET j == CHOOSE q \in quotes : \A k \in quotes : q <= k IN
       IF \E k \in (i + 1)..(j - 1) : s[k] < 32 \/ s[k] = 92 THEN JFail
       ELSE JOk(JStr(SubSeq(s, i + 1, j - 1)), j + 1)

RECURSIVE ScanDigits(_, _, _)
ScanDigits(s, j, acc) ==
  IF j <= Len(s) /\ IsDigit(s[j]) THEN ScanDigits(s, j + 1, acc * 10 + (s[j] - 48))
  ELSE [val |-> acc, next |-> j]

ScanNat(s, i) ==
  IF i > Len(s) \/ ~IsDigit(s[i]) THEN JFail
  ELSE IF s[i] = 48 THEN JOk(JNum(0), i + 1)
  ELSE LET d == ScanDigits(s, i, 0) IN JOk(JNum(d.val), d.next)

ScanNumber(s, i) ==
  IF s[i] = 45
  THEN LET r == ScanNat(s, i + 1) IN
       IF r.ok THEN JOk(JNum(0 - r.val.v), r.next) ELSE JFail
  ELSE ScanNat(s, i)

ScanWord(s, i, word, val) ==
  IF i + Len(word) - 1 <= Len(s) /\ SubSeq(s, i, i + Len(word) - 1) = word
  THEN JOk(val, i + Len(word)) ELSE JFail

WordTrue == S("true")
WordFalse == S("false")
WordNull == S("null")

RECURSIVE ParseValue(_, _)
RECURSIVE ParseMembers(_, _, _)
RECURSIVE ParseElements(_, _, _)

\* after "{" or ",": "key" : value, then "," or "}"
ParseMembers(s, i, acc) ==
  LET k == SkipWs(s, i) IN
  IF k > Len(s) \/ s[k] # 34 THEN JFail
  ELSE LET key == ScanString(s, k) IN
       IF ~key.ok THEN JFail
       ELSE LET c == SkipWs(s, key.next) IN
            IF c > Len(s) \/ s[c] # 58 THEN JFail
            ELSE LET val == ParseValue(s, SkipWs(s, c + 1)) IN
                 IF ~val.ok THEN JFail
                 ELSE LET e == SkipWs(s, val.next)
                          acc2 == Append(acc, <<key.val.v, val.val>>) IN
                      IF e > Len(s) THEN JFail
                      ELSE IF s[e] = 125 THEN JOk(JObj(acc2), e + 1)
                      ELSE IF s[e] = 44 THEN ParseMembers(s, e + 1, acc2)
                      ELSE JFail

\* after "[" or ",": value, then "," or "]"
ParseElements(s, i, acc) ==
  LET val == ParseValue(s, SkipWs(s, i)) IN
  IF ~val.ok THEN JFail
  ELSE LET e == SkipWs(s, val.next)
           acc2 == Append(acc, val.val) IN
       IF e > Len(s) THEN JFail
       ELSE IF s[e] = 93 THEN JOk(JArr(acc2), e + 1)
       ELSE IF s[e] = 44 THEN ParseElements(s, e + 1, acc2)
       ELSE JFail

ParseValue(s, i) ==
  IF i > Len(s) THEN JFail
  ELSE IF s[i] = 34 THEN ScanString(s, i)
  ELSE IF s[i] = 123
       THEN LET k == SkipWs(s, i + 1) IN
            IF k <= Len(s) /\ s[k] = 125 THEN JOk(JObj(<<>>), k + 1)
            ELSE ParseMembers(s, i + 1, <<>>)
  ELSE IF s[i] = 91
       THEN LET k == SkipWs(s, i + 1) IN
            IF k <= Len(s) /\ s[k] = 93 THEN JOk(JArr(<<>>), k + 1)
            ELSE ParseElements(s, i + 1, <<>>)
  ELSE IF s[i] = 116 THEN ScanWord(s, i, WordTrue, JBool(TRUE))
  ELSE IF s[i] = 102 THEN ScanWord(s, i, WordFalse, JBool(FALSE))
  ELSE IF s[i] = 110 THEN ScanWord(s, i, WordNull, JNull)
  ELSE IF s[i] = 45 \/ IsDigit(s[i]) THEN ScanNumber(s, i)
  ELSE JFail

\* json.loads(text): [ok, val]; ok = FALSE is JSONDecodeError
JsonLoads(text) ==
  LET r == ParseValue(text, SkipWs(text, 1)) IN
  IF r.ok /\ SkipWs(text, r.next) = Len(text) + 1
  THEN [ok |-> TRUE, val |-> r.val]
  ELSE [ok |-> FALSE, val |-> JNull]

(***************************************************************************)
(* Python values: dict.get, truthiness, str()                              *)
(***************************************************************************)
IsDict(x) == x.t = "obj"

HasKey(obj, key) == \E i \in 1..Len(obj.v) : obj.v[i][1] = key

\* value of the last pair with that key (a repeated key keeps the last)
Lookup(obj, key) ==
  LET i == CHOOSE k \in 1..Len(obj.v) :
              /\ obj.v[k][1] = key
              /\ \A m \in (k + 1)..Len(obj.v) : obj.v[m][1] # key
  IN obj.v[i][2]

\* dict.get(key, default); only called on a dict
DictGet(obj, key, default) == IF HasKey(obj, key) THEN Lookup(obj, key) ELSE default

\* bool(x)
Truthy(x) ==
  CASE x.t = "null" -> FALSE
    [] x.t = "bool" -> x.v
    [] x.t = "num" -> x.v # 0
    [] x.t \in {"str", "arr", "obj"} -> Len(x.v) > 0

PyTrue == S("True")
PyFalse == S("False")
PyNone == S("None")

\* str(x) for the scalar values
PyStr(x) ==
  CASE x.t = "str" -> x.v
    [] x.t = "num" -> IntToStr(x.v)
    [] x.t = "bool" -> IF x.v THEN PyTrue ELSE PyFalse
    [] x.t = "null" -> PyNone

(***************************************************************************)
(* base64.urlsafe_b64decode(str): ASCII check, "-_" -> "+/", then the      *)
(* non-strict binascii.a2b_base64, which discards every character outside  *)
(* the alphabet and stops at the padding that completes a quad.            *)
(***************************************************************************)
B64Val(c) ==
  IF c >= 65 /\ c <= 90 THEN c - 65
  ELSE IF c >= 97 /\ c <= 122 THEN c - 71
  ELSE IF c >= 48 /\ c <= 57 THEN c + 4
  ELSE IF c = 43 THEN 62
  ELSE IF c = 47 THEN 63
  ELSE -1

UrlsafeTranslate(c) == IF c = 45 THEN 43 ELSE IF c = 95 THEN 47 ELSE c

B64Error == [ok |-> FALSE, bytes |-> <<>>]

IsB64Char(c) == c = 61 \/ B64Val(c) >= 0

\* a2b_base64 reads the data characters four at a time.  Characters outside
\* the alphabet change nothing; "=" counts only in the third or fourth place
\* of a quad, and decoding stops at the "=" that fills the quad; input that
\* ends inside a quad is an error.
A2bBase64(s) ==
  LET f == SelectSeq(s, IsB64Char)
      Quad(i) == Cardinality({j \in 1..(i - 1) : f[j] # 61}) % 4
      stops == {i \in 1..Len(f) :
                  /\ f[i] = 61
                  /\ \/ Quad(i) = 3
                     \/ Quad(i) = 2 /\ i > 1 /\ f[i - 1] = 61}
      end == IF stops = {} THEN Len(f) + 1
             ELSE CHOOSE i \in stops : \A k \in stops : i <= k
      d == SelectSeq(SubSeq(f, 1, end - 1), LAMBDA c : c # 61)
      n == Len(d)
      v == [k \in 1..n |-> B64Val(d[k])]
      nbytes == 3 * (n \div 4) + (IF n % 4 = 0 THEN 0 ELSE (n % 4) - 1)
      Byte(k) ==
        LET g == 4 * ((k - 1) \div 3) IN
        CASE (k - 1) % 3 = 0 -> v[g + 1] * 4 + (v[g + 2] \div 16)
          [] (k - 1) % 3 = 1 -> (v[g + 2] % 16) * 16 + (v[g + 3] \div 4)
          [] (k - 1) % 3 = 2 -> (v[g + 3] % 4) * 64 + v[g + 4]
  IN IF stops = {} /\ n % 4 # 0 THEN B64Error
     ELSE [ok |-> TRUE, bytes |-> [k \in 1..nbytes |-> Byte(k)]]

UrlsafeB64Decode(s) ==
  IF \E i \in 1..Len(s) : s[i] >= 128 THEN B64Error
  ELSE A2bBase64([i \in 1..Len(s) |-> UrlsafeTranslate(s[i])])

(***************************************************************************)
(* ZAIClient._extract_user_id_from_token                                   *)
(***************************************************************************)
Guest == S("guest")

KeyId == S("id")
KeyUserId == S("user_id")
KeyUid == S("uid")
KeySub == S("sub")

\* another order of the keys
ClaimKeysSwapped == <<KeyUserId, KeyId, KeyUid, KeySub>>
ClaimKeys == <<KeyId, KeyUserId, KeyUid, KeySub>>

\* for key in (...): val = payload.get(key); if val: return str(val)
RECURSIVE FirstClaim(_, _)
FirstClaim(payload, keys) ==
  IF keys = <<>> THEN Guest
  ELSE LET val == DictGet(payload, Head(keys), JNull) IN
       IF Truthy(val) THEN PyStr(val) ELSE FirstClaim(payload, Tail(keys))

\* "=" * (-len(payload_raw) % 4)
Padding(payload_raw) == [i \in 1..((0 - Len(payload_raw)) % 4) |-> 61]

\* the body of the try block: [raised, value]
ExtractUserIdTry(token) ==
  LET parts == Split(token, 46) IN
  IF Len(parts) < 2 THEN [raised |-> FALSE, value |-> Guest]
  ELSE LET payload_raw == parts[2]
           dec == UrlsafeB64Decode(payload_raw \o Padding(payload_raw)) IN
       IF ~dec.ok THEN [raised |-> TRUE, value |-> <<>>]
       ELSE LET js == JsonLoads(Utf8Decode(dec.bytes, "ignore").text) IN
            IF ~js.ok \/ ~IsDict(js.val) THEN [raised |-> TRUE, value |-> <<>>]
            ELSE [raised |-> FALSE, value |-> FirstClaim(js.val, ClaimKeys)]

\* try: ... except: return "guest"
ExtractUserId(token) ==
  LET r == ExtractUserIdTry(token) IN
  IF r.raised THEN [raised |-> FALSE, value |-> Guest] ELSE r

(***************************************************************************)
(* State                                                                   *)
(***************************************************************************)
VARIABLES
  client,            \* self.token, self.anonymous
  pc,                \* where the current chat call stands
  req,               \* arguments of the current chat call
  ctx,               \* locals of chat(): token, ids, timestamp, signature, envelope
  sent,              \* HTTP requests sent by the current call, in order
  seen,              \* what the network answered to them
  nsig,              \* _generate_signature calls of the current call
  nuuid,             \* uuid4 values generated so far by this client
  conn,              \* transport connection of the current call
  wire,              \* lines the server sends on the current response
  pos,               \* transport lines read so far
  yielded,           \* lines the generator has yielded so far
  full_content,      \* accumulator of _non_stream_request
  reasoning_content, \* accumulator of _non_stream_request
  result,            \* value returned by a non-streaming call
  err,               \* exception that ended the call
  calls,             \* chat calls started on this client
  op,                \* function under direct call (pure-function runs)
  arg,               \* its argument
  ret,               \* its return value
  called             \* whether it has returned

callVars == <<client, pc, req, ctx, sent, seen, nsig, nuuid, conn, wire, pos, yielded,
              full_content, reasoning_content, result, err, calls>>
fnVars == <<op, arg, ret, called>>
vars == <<client, pc, req, ctx, sent, seen, nsig, nuuid, conn, wire, pos, yielded,
          full_content, reasoning_content, result, err, calls,
          op, arg, ret, called>>

\* Optional[str]
None == [set |-> FALSE, s |-> <<>>]
Some(s) == [set |-> TRUE, s |-> s]

\* optional number / optional value of a dict key
NoneV == [set |-> FALSE, v |-> 0]
SomeV(x) == [set |-> TRUE, v |-> x]
\* the same for a flag and for a list
NoneB == [set |-> FALSE, v |-> FALSE]
NoneL == [set |-> FALSE, v |-> <<>>]

(***************************************************************************)
(* ZAIClient.__init__ constants and MODEL_MAPPING                          *)
(***************************************************************************)
base_url == S("https://chat.z.ai")
api_url == base_url \o S("/api/chat/completions")
auth_url == base_url \o S("/api/v1/auths/")
signing_secret == S("junjie")

DefaultUpstreamId == S("0727-360B-API")

MODEL_MAPPING ==
  << <<S("GLM-4.5"), S("0727-360B-API")>>,
     <<S("GLM-4.5-Thinking"), S("0727-360B-API")>>,
     <<S("GLM-4.5-Search"), S("0727-360B-API")>>,
     <<S("GLM-4.5-Air"), S("0727-106B-API")>>,
     <<S("GLM-4.6"), S("GLM-4-6-API-V1")>>,
     <<S("GLM-4.6-Thinking"), S("GLM-4-6-API-V1")>>,
     <<S("GLM-4.6-Search"), S("GLM-4-6-API-V1")>> >>

\* MODEL_MAPPING.get(model, default)
MappingGet(model, default) ==
  IF \E i \in 1..Len(MODEL_MAPPING) : MODEL_MAPPING[i][1] = model
  THEN MODEL_MAPPING[CHOOSE i \in 1..Len(MODEL_MAPPING) : MODEL_MAPPING[i][1] = model][2]
  ELSE default

(***************************************************************************)
(* ZAIClient._generate_uuid: str(uuid.uuid4()).  The n-th value generated  *)
(* by the client is distinct from every other one.                         *)
(***************************************************************************)
UuidStem == S("uuid4-")

GenerateUuid(n) == UuidStem \o NatToStr(n)

(***************************************************************************)
(* ZAIClient._generate_signature.  hmac.new(key, msg, sha256).hexdigest()  *)
(* is a collision-free function of (key, msg).                             *)
(***************************************************************************)
WindowMs == 5 * 60 * 1000

HmacSha256Hex(key, msg) == [alg |-> "hmac-sha256-hex", key |-> key, msg |-> msg]

\* no windowing
WindowIndexExact(timestamp_ms) == timestamp_ms
WindowIndex(timestamp_ms) == timestamp_ms \div WindowMs

DerivedKey(secret, timestamp_ms) ==
  HmacSha256Hex(secret, IntToStr(WindowIndex(timestamp_ms)))

TxtRequestId == S("requestId,")
TxtTimestamp == S("timestamp,")
TxtUserId == S("user_id,")
Comma == S(",")
Bar == S("|")

CanonicalString(message_text, request_id, timestamp_ms, user_id) ==
  Concat(<< TxtRequestId, request_id, Comma,
            TxtTimestamp, IntToStr(timestamp_ms), Comma,
            TxtUserId, user_id, Bar, message_text, Bar,
            IntToStr(timestamp_ms) >>)

GenerateSignature(secret, message_text, request_id, timestamp_ms, user_id) ==
  HmacSha256Hex(DerivedKey(secret, timestamp_ms),
                CanonicalString(message_text, request_id, timestamp_ms, user_id))

(***************************************************************************)
(* ZAIClient._build_headers                                                *)
(***************************************************************************)
UserAgent == S("Mozilla/5.0 (Windows NT 10.0; Win64; x64) AppleWebKit/537.36")
AcceptLanguage == S("zh-CN,zh;q=0.9")
ContentTypeJson == S("application/json")
AcceptBoth == S("application/json, text/event-stream")
Bearer == S("Bearer ")
FeVersion == S("prod-fe-1.0.79")
ChatPath == S("/c/")

BuildHeaders(token, chat_id, signature) ==
  [ ContentType |-> ContentTypeJson,
    Accept |-> AcceptBoth,
    UserAgent |-> UserAgent,
    AcceptLanguage |-> AcceptLanguage,
    Authorization |-> Bearer \o token,
    XSignature |-> signature,
    XFEVersion |-> FeVersion,
    Origin |-> base_url,
    Referer |-> base_url \o ChatPath \o chat_id ]

(***************************************************************************)
(* ZAIClient._build_request_body.  kwargs is [stream, temperature,         *)
(* max_tokens, tools], each key present or not; body_id is the value of    *)
(* the self._generate_uuid() call of line 234.  The four clock-derived     *)
(* entries of "variables" are left out.                                    *)
(***************************************************************************)
WordThinking == S("thinking")
WordSearch == S("search")
Word45 == S("4.5")
DeepWebSearch == S("deep-web-search")
BodyVariables ==
  [ USER_NAME |-> S("Guest"),
    USER_LOCATION |-> S("Unknown"),
    CURRENT_TIMEZONE |-> S("Asia/Shanghai"),
    USER_LANGUAGE |-> S("zh-CN") ]
OwnedBy == S("z.ai")

BuildRequestBody(messages, model, chat_id, kwargs, body_id) ==
  LET upstream_model_id == MappingGet(model, DefaultUpstreamId)
      is_thinking == Contains(Lower(model), WordThinking)
      is_search == Contains(Lower(model), WordSearch)
      mcp_servers == IF is_search /\ Contains(model, Word45)
                     THEN <<DeepWebSearch>> ELSE <<>>
  IN [ stream |-> IF kwargs.stream.set THEN kwargs.stream.v ELSE TRUE,
       model |-> upstream_model_id,
       messages |-> messages,
       params |-> [ temperature |-> kwargs.temperature,
                    max_tokens |-> kwargs.max_tokens ],
       features |-> [ image_generation |-> FALSE,
                      web_search |-> is_search,
                      auto_web_search |-> is_search,
                      preview_mode |-> FALSE,
                      flags |-> <<>>,
                      features |-> <<>>,
                      enable_thinking |-> is_thinking ],
       background_tasks |-> [ title_generation |-> FALSE,
                              tags_generation |-> FALSE ],
       mcp_servers |-> mcp_servers,
       variables |-> BodyVariables,
       model_item |-> [ id |-> upstream_model_id,
                        name |-> model,
                        owned_by |-> OwnedBy ],
       chat_id |-> chat_id,
       id |-> body_id,
       tools |-> IF kwargs.tools.set /\ ~is_thinking THEN kwargs.tools ELSE NoneL ]

(***************************************************************************)
(* urllib.parse.urlencode: every value goes through str() and quote_plus   *)
(***************************************************************************)
HexDigit(n) == IF n < 10 THEN 48 + n ELSE 55 + n

PercentByte(b) == <<37, HexDigit(b \div 16), HexDigit(b % 16)>>

IsUnreserved(c) ==
  \/ c >= 65 /\ c <= 90
  \/ c >= 97 /\ c <= 122
  \/ IsDigit(c)
  \/ c \in {95, 46, 45, 126}

QuoteChar(c) ==
  IF IsUnreserved(c) THEN <<c>>
  ELSE IF c = 32 THEN <<43>>
  ELSE IF c < 128 THEN PercentByte(c)
  ELSE PercentByte(192 + (c \div 64)) \o PercentByte(128 + (c % 64))

QuotePlus(s) == Concat([i \in 1..Len(s) |-> QuoteChar(s[i])])

(***************************************************************************)
(* ZAIClient.get_guest_token and ZAIClient._get_token.  resp is what the   *)
(* auth endpoint does: [neterr, status, body].  A token field of the auth  *)
(* body is a string, null or absent in the inputs.                         *)
(***************************************************************************)
Raised == [raised |-> TRUE, value |-> <<>>]
Returned(x) == [raised |-> FALSE, value |-> x]

AuthGet ==
  [ method |-> "GET", url |-> auth_url,
    headers |-> [ Accept |-> S("*/*"),
                  AcceptLanguage |-> AcceptLanguage,
                  UserAgent |-> UserAgent,
                  Referer |-> base_url \o S("/") ] ]

KeyToken == S("token")

\* every exception of the try block is re-raised as Exception
GetGuestToken(resp) ==
  IF resp.neterr THEN Raised
  ELSE IF resp.status = 200
       THEN LET data == JsonLoads(resp.body) IN
            IF ~data.ok \/ ~IsDict(data.val) THEN Raised
            ELSE LET token == DictGet(data.val, KeyToken, JStr(<<>>)) IN
                 IF Truthy(token) THEN Returned(token.v) ELSE Raised
  ELSE Raised

\* a test for a configured token rather than for a truthy one
GetTokenIfSet(cl, resp) ==
  IF cl.token.set
  THEN [raised |-> FALSE, value |-> cl.token.s, requests |-> <<>>]
  ELSE IF cl.anonymous
       THEN LET g == GetGuestToken(resp) IN
            [raised |-> g.raised, value |-> g.value, requests |-> <<AuthGet>>]
  ELSE [raised |-> TRUE, value |-> <<>>, requests |-> <<>>]

\* [raised, value, requests]: requests are the HTTP requests it sent
GetToken(cl, resp) ==
  IF cl.token.set /\ cl.token.s # <<>>
  THEN [raised |-> FALSE, value |-> cl.token.s, requests |-> <<>>]
  ELSE IF cl.anonymous
       THEN LET g == GetGuestToken(resp) IN
            [raised |-> g.raised, value |-> g.value, requests |-> <<AuthGet>>]
  ELSE [raised |-> TRUE, value |-> <<>>, requests |-> <<>>]

(***************************************************************************)
(* ZAIClient.chat, lines 282-320: the locals it computes.  n is the number *)
(* of uuid4 values the client generated before the call.                   *)
(***************************************************************************)
\* the loop without reversed(): the first user message
FirstUserMessage(messages) ==
  LET users == {i \in 1..Len(messages) : messages[i].role = "user"} IN
  IF users = {} THEN <<>>
  ELSE LET first == CHOOSE i \in users : \A k \in users : i <= k IN
       IF messages[first].content.set THEN messages[first].content.s ELSE <<>>

\* for msg in reversed(messages): if msg.get("role") == "user": ... break
RECURSIVE LastUserMessage(_)
LastUserMessage(messages) ==
  IF messages = <<>> THEN <<>>
  ELSE LET msg == messages[Len(messages)] IN
       IF msg.role = "user"
       THEN IF msg.content.set THEN msg.content.s ELSE <<>>
       ELSE LastUserMessage(SubSeq(messages, 1, Len(messages) - 1))

NoCtx == [built |-> FALSE]

ChatLocals(token, r, now, n) ==
  With(ExtractUserId(token).value, LAMBDA user_id :
  LET chat_id == GenerateUuid(n + 1)
      request_id == GenerateUuid(n + 2)
      timestamp_ms == now
      last_user_message == LastUserMessage(r.messages)
      signature == GenerateSignature(signing_secret, last_user_message,
                                     request_id, timestamp_ms, user_id)
      headers == BuildHeaders(token, chat_id, signature)
      body == BuildRequestBody(r.messages, r.model, chat_id,
                               [r.kwargs EXCEPT !.stream = SomeV(r.stream)],
                               GenerateUuid(n + 3))
      query_params ==
        [ timestamp |-> QuotePlus(IntToStr(timestamp_ms)),
          requestId |-> QuotePlus(request_id),
          user_id |-> QuotePlus(user_id),
          token |-> QuotePlus(token),
          current_url |-> QuotePlus(base_url \o ChatPath \o chat_id),
          pathname |-> QuotePlus(ChatPath \o chat_id),
          signature_timestamp |-> QuotePlus(IntToStr(timestamp_ms)) ]
  IN [ built |-> TRUE,
       token |-> token,
       chat_id |-> chat_id,
       request_id |-> request_id,
       timestamp_ms |-> timestamp_ms,
       user_id |-> user_id,
       last_user_message |-> last_user_message,
       signature |-> signature,
       headers |-> headers,
       body |-> body,
       url |-> [base |-> api_url, query |-> query_params] ])

(***************************************************************************)
(* ZAIClient._stream_request, body of the loop over response.iter_lines    *)
(***************************************************************************)
\* a decoder without the latin-1 fallback: an undecodable line is dropped
DecodeLineStrict(line) ==
  IF line = <<>> THEN [yield |-> FALSE, text |-> <<>>]
  ELSE LET u == Utf8Decode(line, "strict") IN
       IF u.ok THEN [yield |-> TRUE, text |-> u.text \o NL]
       ELSE [yield |-> FALSE, text |-> <<>>]

\* [yield, text] for one transport line
DecodeLine(line) ==
  IF line = <<>> THEN [yield |-> FALSE, text |-> <<>>]
  ELSE LET u == Utf8Decode(line, "strict") IN
       IF u.ok THEN [yield |-> TRUE, text |-> u.text \o NL]
       ELSE [yield |-> TRUE, text |-> Latin1Decode(line) \o NL]

(***************************************************************************)
(* ZAIClient._non_stream_request, body of the loop over the yielded lines  *)
(***************************************************************************)
DataPrefix == S("data: ")
DoneMark == S("[DONE]")
CompletionType == S("chat:completion")
KeyType == S("type")
KeyData == S("data")
KeyPhase == S("phase")
KeyDelta == S("delta_content")
PhaseThinking == S("thinking")
\* a phase name the aggregator would not be given by the server
PhaseAnswerOther == S("content")
PhaseAnswer == S("answer")

IsStr(x, text) == x.t = "str" /\ x.v = text

\* acc is [full_content, reasoning_content]; an exception inside the try
\* leaves both accumulators as they were
NonStreamStep(acc, line) ==
  IF ~StartsWith(line, DataPrefix) THEN acc
  ELSE LET data_str == Strip(DropFirst(line, 6)) IN
       IF data_str = DoneMark \/ data_str = <<>> THEN acc
       ELSE LET chunk == JsonLoads(data_str) IN
            IF ~chunk.ok \/ ~IsDict(chunk.val) THEN acc
            ELSE IF ~IsStr(DictGet(chunk.val, KeyType, JNull), CompletionType) THEN acc
            ELSE LET data == DictGet(chunk.val, KeyData, JObj(<<>>)) IN
                 IF ~IsDict(data) THEN acc
                 ELSE LET phase == DictGet(data, KeyPhase, JNull)
                          delta == DictGet(data, KeyDelta, JStr(<<>>))
                      IN IF IsStr(phase, PhaseThinking)
                         THEN IF delta.t = "str"
                              THEN [acc EXCEPT !.reasoning_content = @ \o delta.v]
                              ELSE acc
                         ELSE IF IsStr(phase, PhaseAnswer)
                         THEN IF delta.t = "str"
                              THEN [acc EXCEPT !.full_content = @ \o delta.v]
                              ELSE acc
                         ELSE acc

\* the returned dict
NonStreamResult(acc) ==
  [ content |-> Strip(acc.full_content),
    reasoning_content |-> IF acc.reasoning_content # <<>>
                          THEN Some(Strip(acc.reasoning_content)) ELSE None ]

(***************************************************************************)
(* ZAIClient.get_content_from_chunk: the Python value it returns           *)
(***************************************************************************)
GetContentFromChunk(chunk) ==
  IF ~StartsWith(chunk, DataPrefix) THEN Returned(JStr(<<>>))
  ELSE LET data_str == Strip(DropFirst(chunk, 6)) IN
       IF data_str = DoneMark \/ data_str = <<>> THEN Returned(JStr(<<>>))
       ELSE LET parsed == JsonLoads(data_str) IN
            IF ~parsed.ok \/ ~IsDict(parsed.val) THEN Returned(JStr(<<>>))
            ELSE IF ~IsStr(DictGet(parsed.val, KeyType, JNull), CompletionType)
                 THEN Returned(JStr(<<>>))
            ELSE LET data == DictGet(parsed.val, KeyData, JObj(<<>>)) IN
                 IF ~IsDict(data) THEN Returned(JStr(<<>>))
                 ELSE Returned(DictGet(data, KeyDelta, JStr(<<>>)))

(***************************************************************************)
(* Bounds and input sets                                                   *)
(***************************************************************************)
MaxCalls == 2        \* chat calls per client
MaxCallLines == 1    \* lines per response in the call lifecycle
MaxLines == 2        \* lines per response in the stream runs

BoundedSeq(X, n) == UNION {[1..k -> X] : k \in 0..n}

\* bearer tokens; the second segment of JwtU1 is {"id":"u1"}, of JwtGuest {"id":7}
JwtU1 == S("h.eyJpZCI6InUxIn0.s")
JwtGuest == S("h.eyJpZCI6N30.g")

Clients ==
  [ token : {None, Some(<<>>), Some(JwtU1), Some(S("opaque"))},
    anonymous : BOOLEAN ]

\* an answer of the auth endpoint; carries is the non-empty token its body
\* holds, written down with the body
AuthResp(neterr, status, body, carries) ==
  [neterr |-> neterr, status |-> status, body |-> body, carries |-> carries]

NoAuthResp == AuthResp(FALSE, 0, <<>>, None)

AuthResponses ==
  { AuthResp(TRUE, 0, <<>>, None),
    AuthResp(FALSE, 200, S("{\"token\":\"h.eyJpZCI6N30.g\"}"), Some(JwtGuest)),
    AuthResp(FALSE, 200, S("{\"id\": 1, \"token\": \"h.eyJpZCI6N30.g\"}"), Some(JwtGuest)),
    AuthResp(FALSE, 200, S("{\"token\":\"\"}"), None),
    AuthResp(FALSE, 200, S("{\"token\":null}"), None),
    AuthResp(FALSE, 200, S("{}"), None),
    AuthResp(FALSE, 200, S("[1]"), None),
    AuthResp(FALSE, 200, S("<html>"), None),
    AuthResp(FALSE, 401, S("{\"token\":\"h.eyJpZCI6N30.g\"}"), Some(JwtGuest)),
    AuthResp(FALSE, 500, <<>>, None) }

NoSeen == [auth |-> NoAuthResp, status |-> 0]

Msg(role, content) == [role |-> role, content |-> content]

MessageLists ==
  { <<Msg("user", Some(S("hi")))>>,
    <<Msg("user", Some(S("one"))), Msg("assistant", Some(S("b"))),
      Msg("user", Some(S("two | 2")))>>,
    <<Msg("user", Some(S("q"))), Msg("assistant", Some(S("a")))>>,
    <<Msg("system", Some(S("sys"))), Msg("assistant", Some(S("a")))>>,
    <<Msg("user", None)>>,
    <<>> }

NoKwargs ==
  [stream |-> NoneB, temperature |-> NoneV, max_tokens |-> NoneV, tools |-> NoneL]

CallKwargs ==
  { NoKwargs,
    [NoKwargs EXCEPT !.tools = SomeV(<<S("get_weather")>>), !.temperature = SomeV(1)] }

CallRequests ==
  [ messages : MessageLists,
    model : {S("GLM-4.6"), S("GLM-4.5-Thinking")},
    stream : BOOLEAN,
    kwargs : CallKwargs ]

\* time.time() * 1000, kept small: two instants either side of a window edge
CallTimestamps == {WindowMs - 1, WindowMs}

PostResponses ==
  { [neterr |-> TRUE, status |-> 0],
    [neterr |-> FALSE, status |-> 200],
    [neterr |-> FALSE, status |-> 500] }

\* transport lines (bytes, without the line terminator)
Frame(prefix, phase, delta) ==
  Concat(<< prefix, S("{\"type\":\"chat:completion\",\"data\":{\"phase\":\""), phase,
            S("\",\"delta_content\":\""), delta, S("\"}}") >>)

LineThinkingA == Frame(S("data: "), S("thinking"), S("A"))
LineAnswerHi == Frame(S("data: "), S("answer"), S("Hi"))
LineAnswerThere == Frame(S("data: "), S("answer"), S(" there"))
LineDone == S("data: [DONE]")
LineBlank == <<>>
LineOtherPhase == Frame(S("data: "), S("other"), S("x"))
LineOtherType == S("data: {\"type\":\"ping\",\"data\":{\"phase\":\"answer\",\"delta_content\":\"p\"}}")
LineComment == S(": keep-alive")
LineBadJson == S("data: {\"type\":\"chat:completion\",\"data\":")
LineNoFields == S("data: {\"type\":\"chat:completion\",\"data\":\"x\"}")
LineNullDelta == S("data: {\"type\":\"chat:completion\",\"data\":{\"phase\":\"answer\",\"delta_content\":null}}")
\* 0xC3 0xA9 is U+00E9 in UTF-8
LineAnswerUtf8 == Frame(S("data: "), S("answer"), <<195, 169>>)
\* 0xFF never occurs in UTF-8
LineBadUtf8 == Frame(S("data: "), S("answer"), <<255, 33>>)
\* the frames of the aggregation scenario as the specification writes them
LitThinkingA == Frame(S("data:"), S("thinking"), S("A"))
LitAnswerHi == Frame(S("data:"), S("answer"), S("Hi"))
LitAnswerThere == Frame(S("data:"), S("answer"), S(" there"))
LitDone == S("data:[DONE]")

ScenarioFrames == <<LineThinkingA, LineAnswerHi, LineAnswerThere, LineDone>>
ScenarioAsWritten == <<LitThinkingA, LitAnswerHi, LitAnswerThere, LitDone>>

CallLines == {LineAnswerHi, LineBlank}
CallScripts == BoundedSeq(CallLines, MaxCallLines)

StreamLines ==
  { LineThinkingA, LineAnswerThere, LineDone, LineBlank, LineOtherPhase,
    LineOtherType, LineComment, LineBadJson, LineNoFields, LineNullDelta,
    LineAnswerUtf8, LineBadUtf8, LitAnswerHi }
StreamScripts ==
  BoundedSeq(StreamLines, MaxLines) \cup {ScenarioFrames, ScenarioAsWritten}

(***************************************************************************)
(* The chat call as a state machine                                        *)
(***************************************************************************)
NoResult == [set |-> FALSE, content |-> <<>>, reasoning_content |-> None]
NoRet == [raised |-> FALSE, value |-> <<>>]

\* no pure-function run in progress
FnIdle == op = "chat" /\ arg = <<>> /\ ret = NoRet /\ called = FALSE

NoReq == [messages |-> <<>>, model |-> <<>>, stream |-> TRUE, kwargs |-> NoKwargs]

\* no chat call in progress
CallIdle ==
  /\ pc = "idle"
  /\ req = NoReq
  /\ ctx = NoCtx
  /\ sent = <<>>
  /\ seen = NoSeen
  /\ nsig = 0
  /\ conn = "none"
  /\ wire = <<>>
  /\ pos = 0
  /\ yielded = <<>>
  /\ full_content = <<>>
  /\ reasoning_content = <<>>
  /\ result = NoResult
  /\ err = "none"

Init ==
  /\ client \in Clients
  /\ CallIdle
  /\ nuuid = 0
  /\ calls = 0
  /\ FnIdle

\* chat(), lines 282-326: resolve the token, build the envelope and hand it
\* to _stream_request (a generator: nothing is sent yet) or to
\* _non_stream_request (which starts by iterating that generator)
Chat ==
  /\ pc = "idle"
  /\ calls < MaxCalls
  /\ \E r \in CallRequests, resp \in AuthResponses, now \in CallTimestamps :
       \E tok \in {GetToken(client, resp)} :
       /\ req' = r
       /\ sent' = tok.requests
       /\ seen' = [auth |-> IF tok.requests = <<>> THEN NoAuthResp ELSE resp,
                   status |-> 0]
       /\ IF tok.raised
          THEN /\ pc' = "failed"
               /\ err' = "auth"
               /\ ctx' = NoCtx
               /\ nsig' = 0
               /\ nuuid' = nuuid
          ELSE /\ pc' = "ready"
               /\ err' = "none"
               /\ ctx' = ChatLocals(tok.value, r, now, nuuid)
               /\ nsig' = 1
               /\ nuuid' = nuuid + 3
  /\ calls' = calls + 1
  /\ conn' = "none"
  /\ wire' = <<>>
  /\ pos' = 0
  /\ yielded' = <<>>
  /\ full_content' = <<>>
  /\ reasoning_content' = <<>>
  /\ result' = NoResult
  /\ UNCHANGED <<client, op, arg, ret, called>>

\* the request _stream_request sends; _non_stream_request passes
\* {**body, "stream": True}
PostRequest ==
  [ method |-> "POST",
    url |-> ctx.url,
    headers |-> ctx.headers,
    json |-> IF req.stream THEN ctx.body ELSE [ctx.body EXCEPT !.stream = TRUE],
    stream |-> TRUE,
    timeout |-> 60 ]

\* _stream_request, lines 335-344: runs when the generator is first resumed
Post(Scripts) ==
  /\ pc = "ready"
  /\ sent' = Append(sent, PostRequest)
  /\ \E resp \in PostResponses, script \in Scripts :
       /\ seen' = [seen EXCEPT !.status = resp.status]
       /\ IF resp.neterr
          THEN /\ pc' = "failed"
               /\ err' = "io"
               /\ conn' = "none"
               /\ wire' = <<>>
          ELSE /\ conn' = "open"
               /\ IF resp.status # 200
                  THEN /\ pc' = "failed"
                       /\ err' = "transport"
                       /\ wire' = <<>>
                  ELSE /\ pc' = "streaming"
                       /\ err' = err
                       /\ wire' = script
  /\ UNCHANGED <<client, req, ctx, nsig, nuuid, pos, yielded, full_content,
                 reasoning_content, result, calls, op, arg, ret, called>>

\* one turn of the loop of lines 346-359; in non-streaming mode the yielded
\* line is folded by the loop of lines 372-391 before the next one is read
ReadLine ==
  /\ pc = "streaming"
  /\ pos < Len(wire)
  /\ LET d == DecodeLine(wire[pos + 1])
         acc == NonStreamStep([full_content |-> full_content,
                               reasoning_content |-> reasoning_content], d.text)
     IN /\ pos' = pos + 1
        /\ yielded' = IF d.yield THEN Append(yielded, d.text) ELSE yielded
        /\ IF d.yield /\ ~req.stream
           THEN /\ full_content' = acc.full_content
                /\ reasoning_content' = acc.reasoning_content
           ELSE UNCHANGED <<full_content, reasoning_content>>
  /\ UNCHANGED <<client, pc, req, ctx, sent, seen, nsig, nuuid, conn, wire, result,
                 err, calls, op, arg, ret, called>>

\* iter_lines is exhausted: the body was read to its end, which hands the
\* connection back; the generator returns and _non_stream_request returns
\* its dict (lines 393-396)
EndOfStream ==
  /\ pc = "streaming"
  /\ pos = Len(wire)
  /\ pc' = "done"
  /\ conn' = "released"
  /\ result' = IF req.stream THEN result
               ELSE [set |-> TRUE] @@
                    NonStreamResult([full_content |-> full_content,
                                     reasoning_content |-> reasoning_content])
  /\ UNCHANGED <<client, req, ctx, sent, seen, nsig, nuuid, wire, pos, yielded,
                 full_content, reasoning_content, err, calls, op, arg, ret, called>>

\* a loop that would take a broken connection for the end of the stream
StreamBreaksPartial ==
  /\ pc = "streaming"
  /\ pos < Len(wire)
  /\ pc' = "done"
  /\ err' = err
  /\ conn' = "released"
  /\ result' = IF req.stream THEN result
               ELSE [set |-> TRUE] @@
                    NonStreamResult([full_content |-> full_content,
                                     reasoning_content |-> reasoning_content])
  /\ UNCHANGED <<client, req, ctx, sent, seen, nsig, nuuid, wire, pos, yielded,
                 full_content, reasoning_content, calls, op, arg, ret, called>>

\* iter_lines raises (the connection broke): nothing in lines 346-359 or
\* 372-391 catches it, and the transport drops the broken connection
StreamBreaks ==
  /\ pc = "streaming"
  /\ pos < Len(wire)
  /\ pc' = "failed"
  /\ err' = "io"
  /\ conn' = "released"
  /\ result' = result
  /\ UNCHANGED <<client, req, ctx, sent, seen, nsig, nuuid, wire, pos, yielded,
                 full_content, reasoning_content, calls, op, arg, ret, called>>

\* the caller of a streaming call stops pulling lines; _stream_request has
\* no try/finally, no with block and no response.close()
Abandon ==
  /\ req.stream
  /\ pc \in {"ready", "streaming"}
  /\ pc' = "abandoned"
  /\ UNCHANGED <<client, req, ctx, sent, seen, nsig, nuuid, conn, wire, pos, yielded,
                 full_content, reasoning_content, result, err, calls,
                 op, arg, ret, called>>

\* the interpreter may, at a time of its choosing, finalize the response
\* object of a call that ended, which closes its socket
Collect ==
  /\ pc \in {"failed", "abandoned"}
  /\ conn = "open"
  /\ conn' = "released"
  /\ UNCHANGED <<client, pc, req, ctx, sent, seen, nsig, nuuid, wire, pos, yielded,
                 full_content, reasoning_content, result, err, calls,
                 op, arg, ret, called>>

\* the caller is done with a call that ended: its generator, result or
\* exception goes out of scope; the client object keeps nothing of it
Discard ==
  /\ pc \in {"done", "failed", "abandoned"}
  /\ pc' = "idle"
  /\ req' = NoReq
  /\ ctx' = NoCtx
  /\ sent' = <<>>
  /\ seen' = NoSeen
  /\ nsig' = 0
  /\ conn' = "none"
  /\ wire' = <<>>
  /\ pos' = 0
  /\ yielded' = <<>>
  /\ full_content' = <<>>
  /\ reasoning_content' = <<>>
  /\ result' = NoResult
  /\ err' = "none"
  /\ UNCHANGED <<client, nuuid, calls, op, arg, ret, called>>

Next ==
  \/ Chat
  \/ Post(CallScripts)
  \/ ReadLine
  \/ EndOfStream
  \/ StreamBreaks
  \/ Abandon
  \/ Collect
  \/ Discard

Spec == Init /\ [][Next]_vars

(***************************************************************************)
(* One chat call from the point where chat() has built the envelope, over  *)
(* the full set of transport lines                                         *)
(***************************************************************************)
StreamClient == [token |-> Some(JwtU1), anonymous |-> TRUE]

StreamReq(stream) ==
  [ messages |-> <<Msg("user", Some(<<104, 105>>))>>,
    model |-> MODEL_MAPPING[5][1],
    stream |-> stream,
    kwargs |-> NoKwargs ]

InitStream ==
  /\ client = StreamClient
  /\ pc = "ready"
  /\ \E stream \in BOOLEAN, token \in {client.token.s} :
       /\ req = StreamReq(stream)
       /\ ctx = ChatLocals(token, StreamReq(stream), WindowMs, 0)
  /\ sent = <<>>
  /\ seen = NoSeen
  /\ nsig = 1
  /\ nuuid = 3
  /\ conn = "none"
  /\ wire = <<>>
  /\ pos = 0
  /\ yielded = <<>>
  /\ full_content = <<>>
  /\ reasoning_content = <<>>
  /\ result = NoResult
  /\ err = "none"
  /\ calls = 1
  /\ FnIdle

NextStream ==
  \/ Post(StreamScripts)
  \/ ReadLine
  \/ EndOfStream
  \/ StreamBreaks
  \/ Abandon
  \/ Collect

SpecStream == InitStream /\ [][NextStream]_vars

(***************************************************************************)
(* Properties of the stream decoder and the aggregator                     *)
(***************************************************************************)
TextA == S("A")
TextHi == S("Hi")
TextThere == S(" there")
TextHiThere == S("Hi there")
TextX == S("x")

Ev(phase, delta) == [phase |-> phase, delta |-> delta]
NoEvent == Ev("none", <<>>)

\* the chat:completion event an input line carries, written down with the
\* line; a line that is no "data: " frame of that type carries none
EventOf(line) ==
  CASE line = LineThinkingA -> Ev("thinking", TextA)
    [] line = LineAnswerHi -> Ev("answer", TextHi)
    [] line = LineAnswerThere -> Ev("answer", TextThere)
    [] line = LineAnswerUtf8 -> Ev("answer", <<233>>)
    [] line = LineBadUtf8 -> Ev("answer", <<255, 33>>)
    [] line = LineOtherPhase -> Ev("other", TextX)
    [] OTHER -> NoEvent

\* the same, also counting the frames written without the space after "data:"
EventAsWritten(line) ==
  CASE line = LitThinkingA -> Ev("thinking", TextA)
    [] line = LitAnswerHi -> Ev("answer", TextHi)
    [] line = LitAnswerThere -> Ev("answer", TextThere)
    [] OTHER -> EventOf(line)

\* concatenation, in arrival order, of the deltas of one phase
DeltasOf(lines, phase) ==
  Concat([i \in 1..Len(lines) |->
            IF EventOf(lines[i]).phase = phase THEN EventOf(lines[i]).delta ELSE <<>>])

DeltasAsWritten(lines, phase) ==
  Concat([i \in 1..Len(lines) |->
            IF EventAsWritten(lines[i]).phase = phase
            THEN EventAsWritten(lines[i]).delta ELSE <<>>])

Trimmed(text) ==
  LET keep == {i \in 1..Len(text) : ~IsSpace(text[i])} IN
  IF keep = {} THEN <<>>
  ELSE SubSeq(text, CHOOSE i \in keep : \A k \in keep : i <= k,
                    CHOOSE i \in keep : \A k \in keep : i >= k)

Received == SubSeq(wire, 1, pos)

\* C1 as stated: a non-streaming call returns the trimmed concatenation of
\* the answer deltas as content and of the thinking deltas as reasoning
\* (absent when empty), and the four frames of the aggregation scenario, as
\* the specification writes them, give content "Hi there" and reasoning "A".
AggregatesFramesAsWritten ==
  (~req.stream /\ pc = "done") =>
     /\ result.set
     /\ result.content = Trimmed(DeltasAsWritten(wire, "answer"))
     /\ result.reasoning_content =
          IF DeltasAsWritten(wire, "thinking") = <<>> THEN None
          ELSE Some(Trimmed(DeltasAsWritten(wire, "thinking")))
     /\ wire = ScenarioAsWritten =>
          result.content = TextHiThere /\ result.reasoning_content = Some(TextA)

\* C1 amended: the same for the frames that begin with "data: " (with the
\* space); every other line, a frame written "data:{...}" included, changes
\* neither accumulator; the scenario frames written with "data: " give
\* content "Hi there" and reasoning "A".
AggregatesDataFrames ==
  /\ (~req.stream /\ pc \in {"streaming", "done"}) =>
        /\ full_content = DeltasOf(Received, "answer")
        /\ reasoning_content = DeltasOf(Received, "thinking")
  /\ (~req.stream /\ pc = "done") =>
        /\ result.set
        /\ result.content = Trimmed(DeltasOf(wire, "answer"))
        /\ result.reasoning_content =
             IF DeltasOf(wire, "thinking") = <<>> THEN None
             ELSE Some(Trimmed(DeltasOf(wire, "thinking")))
        /\ wire = ScenarioFrames =>
             result.content = TextHiThere /\ result.reasoning_content = Some(TextA)

ScenarioAggregated ==
  /\ ~req.stream
  /\ pc = "done"
  /\ wire = ScenarioFrames
  /\ result.content = TextHiThere
  /\ result.reasoning_content = Some(TextA)

\* UTF-8 encoding of a text of code points below 0x800
Utf8Encode(text) ==
  Concat([i \in 1..Len(text) |->
            IF text[i] < 128 THEN <<text[i]>>
            ELSE <<192 + (text[i] \div 64), 128 + (text[i] % 64)>>])

NonBlank(lines) == SelectSeq(lines, LAMBDA l : l # <<>>)

IsBadLine(line) == line \in {LineBadUtf8, LineBadJson, LineNoFields, LineNullDelta}

\* C2: after status 200 no line ends the decoder: every non-empty line that
\* has arrived has been yielded, in arrival order, with one newline appended
\* to its decoded text (the text whose UTF-8 encoding is the line, when the
\* line is UTF-8), whatever came before it; and in a non-streaming call the
\* frames after a malformed one are still aggregated.
DecoderSurvivesBadLines ==
  (pc \in {"streaming", "done", "abandoned"} /\ seen.status = 200) =>
     LET lines == NonBlank(Received) IN
     /\ Len(yielded) = Len(lines)
     /\ \A i \in 1..Len(lines) :
          LET y == yielded[i] IN
          /\ y[Len(y)] = 10
          /\ Len(y) = 1 + Len(SubSeq(y, 1, Len(y) - 1))
          /\ Utf8Decode(lines[i], "strict").ok =>
               Utf8Encode(SubSeq(y, 1, Len(y) - 1)) = lines[i]
     /\ ~req.stream =>
          \A i \in 1..Len(Received) :
             EventOf(Received[i]).phase = "answer" =>
                Contains(full_content, EventOf(Received[i]).delta)

\* a well-formed frame was yielded and aggregated after a bad line
YieldedAfterBadLine ==
  /\ ~req.stream
  /\ pc = "streaming"
  /\ pos = 2
  /\ IsBadLine(wire[1])
  /\ wire[2] = LineAnswerThere
  /\ Len(yielded) = 2
  /\ full_content # <<>>

IsPost(r) == r.method = "POST"
Posts == Cardinality({i \in 1..Len(sent) : IsPost(sent[i])})

\* C3: no ended call leaves its connection open
ConnectionReleasedAtEnd ==
  pc \in {"done", "failed", "abandoned"} => conn # "open"

\* C4: at most one POST per call; a status other than 200 fails the call
\* with the transport error before any line is yielded or any result is
\* returned; a non-streaming call that ended has either failed or returned
\* the result of the whole stream.
OnePostNoPartialResult ==
  /\ Posts <= 1
  /\ pc \in {"streaming", "done"} => Posts = 1
  /\ seen.status \notin {0, 200} =>
        /\ pc = "failed"
        /\ err = "transport"
        /\ yielded = <<>>
        /\ ~result.set
  /\ result.set =>
        /\ pc = "done"
        /\ err = "none"
        /\ pos = Len(wire)
        /\ result.content = Trimmed(DeltasOf(wire, "answer"))
  /\ (~req.stream /\ pc \in {"done", "failed"}) => (result.set <=> err = "none")

\* a non-streaming call failed in mid-stream after folding a frame
FailedAfterPartialFold ==
  /\ ~req.stream
  /\ pc = "failed"
  /\ err = "io"
  /\ full_content # <<>>
  /\ ~result.set

(***************************************************************************)
(* Properties of chat(): credential resolution and the envelope            *)
(***************************************************************************)
IsGet(r) == r.method = "GET"
Gets == Cardinality({i \in 1..Len(sent) : IsGet(sent[i])})

TokenConfigured == client.token.set
TokenUsable == client.token.set /\ client.token.s # <<>>

CredentialResolved ==
  pc # "idle" =>
     /\ TokenUsable =>
          /\ Gets = 0
          /\ ctx.built
          /\ ctx.token = client.token.s
     /\ (~TokenUsable /\ client.anonymous) =>
          /\ Gets = 1
          /\ IsGet(sent[1])
          /\ sent[1].url = auth_url
          /\ ctx.built <=>
               (~seen.auth.neterr /\ seen.auth.status = 200 /\ seen.auth.carries.set)
          /\ ctx.built => ctx.token = seen.auth.carries.s
          /\ ~ctx.built => (pc = "failed" /\ err = "auth" /\ Posts = 0)
     /\ (~TokenUsable /\ ~client.anonymous) =>
          /\ Gets = 0
          /\ ~ctx.built
          /\ pc = "failed"
          /\ err = "auth"

SignedText(messages) ==
  LET users == {i \in 1..Len(messages) : messages[i].role = "user"} IN
  IF users = {} THEN <<>>
  ELSE LET last == CHOOSE i \in users : \A k \in users : i >= k IN
       IF messages[last].content.set THEN messages[last].content.s ELSE <<>>

\* C10: one signing context and one envelope per call; the request id,
\* timestamp and identity under the signature are the ones sent as the
\* requestId, timestamp, signature_timestamp and user_id query parameters;
\* the signed text is the content of the last user message or empty; one
\* chat session id serves the Referer, the body's chat_id and the query
\* path; the body's id is another generated value than the chat session id.
EnvelopeBindsSigningContext ==
  /\ nsig <= 1
  /\ ctx.built =>
       LET q == ctx.url.query IN
       /\ nsig = 1
       /\ \E rid \in {GenerateUuid(n) : n \in 1..nuuid},
             ts \in CallTimestamps,
             uid \in {Guest, S("u1"), S("7")} :
            /\ ctx.signature.msg =
                 CanonicalString(SignedText(req.messages), rid, ts, uid)
            /\ q.requestId = QuotePlus(rid)
            /\ q.timestamp = QuotePlus(IntToStr(ts))
            /\ q.signature_timestamp = QuotePlus(IntToStr(ts))
            /\ q.user_id = QuotePlus(uid)
       /\ ctx.headers.XSignature = ctx.signature
       /\ \E cid \in {GenerateUuid(n) : n \in 1..nuuid} :
            /\ ctx.headers.Referer = base_url \o ChatPath \o cid
            /\ ctx.body.chat_id = cid
            /\ q.pathname = QuotePlus(ChatPath \o cid)
            /\ q.current_url = QuotePlus(base_url \o ChatPath \o cid)
            /\ ctx.body.id # cid
            /\ ctx.body.id \in {GenerateUuid(n) : n \in 1..nuuid}
       /\ \A i \in 1..Len(sent) :
            IsPost(sent[i]) =>
               /\ sent[i].url = ctx.url
               /\ sent[i].headers = ctx.headers
               /\ sent[i].json.id = ctx.body.id
               /\ sent[i].json.chat_id = ctx.body.chat_id

\* a call without a user message was signed over the empty text and posted
SignedWithoutUserMessage ==
  /\ ctx.built
  /\ Posts = 1
  /\ \A i \in 1..Len(req.messages) : req.messages[i].role # "user"
  /\ Len(req.messages) > 0
  /\ calls = 2

(***************************************************************************)
(* Direct calls of the pure methods.  A run starts with the argument of    *)
(* one call and ends when the method has returned.                         *)
(***************************************************************************)
FnInit(name, inputs) ==
  /\ client = StreamClient
  /\ CallIdle
  /\ nuuid = 0
  /\ calls = 0
  /\ op = name
  /\ arg \in inputs
  /\ ret = NoRet
  /\ called = FALSE

(***************************************************************************)
(* _extract_user_id_from_token(token).  Each input is a token together     *)
(* with what its second segment holds: "short" (fewer than two segments),  *)
(* "claims" (a JSON object, with its entries among the four claim keys as  *)
(* [key, text, truthy]), "other" (a JSON value that is not an object) or   *)
(* "undecodable" (base64url or JSON decoding fails).                       *)
(***************************************************************************)
Claim(key, text, truthy) == [key |-> key, text |-> text, truthy |-> truthy]

Payload(seg, kind, claims) == [seg |-> seg, kind |-> kind, claims |-> claims]

SegU1 == S("eyJpZCI6InUxIn0")
Seg7 == S("eyJpZCI6N30")
SegZeroSub == S("eyJpZCI6MCwic3ViIjoiczkifQ")
SegEmptyUid == S("eyJpZCI6IiIsInVpZCI6IngifQ")
SegThree == S("eyJ1c2VyX2lkIjoiYiIsInVpZCI6ImMiLCJzdWIiOiJkIn0")
SegSubUid == S("eyJzdWIiOiJ6IiwidWlkIjoiYyJ9")
SegNoClaims == S("e30")
SegArray == S("WzFd")
SegFalsy == S("eyJpZCI6bnVsbCwidXNlcl9pZCI6ZmFsc2UsInVpZCI6dHJ1ZX0")
SegCutJson == S("eyJpZCI6MQ")
SegStrayByte == S("_3siaWQiOjd9")
SegName == S("eyJuYW1lIjoibiJ9")
SegString == S("ImlkIg")
SegSpaced == S("eyJ1aWQiOiA0MiB9")
SegTwice == S("eyJpZCI6ImEiLCJpZCI6ImIifQ")
SegBangs == S("eyJpZCI6MX0!!")
SegPadded1 == S("eyJpZCI6MX0==")
SegLong1 == S("eyJpZCI6InUxIn0AA")
SegX == S("x")
SegPadded0 == S("eyJpZCI6InUxIn0=")
SegOnlyBangs == S("!!!!")
SegNonAscii == S("eyJpZCI6N30") \o <<233>>
SegIdUser == S("eyJpZCI6ImEiLCJ1c2VyX2lkIjoiYiJ9")

Payloads ==
  { Payload(SegU1, "claims", <<Claim(KeyId, S("u1"), TRUE)>>),
    Payload(Seg7, "claims", <<Claim(KeyId, S("7"), TRUE)>>),
    Payload(SegZeroSub, "claims",
            <<Claim(KeyId, S("0"), FALSE), Claim(KeySub, S("s9"), TRUE)>>),
    Payload(SegEmptyUid, "claims",
            <<Claim(KeyId, <<>>, FALSE), Claim(KeyUid, S("x"), TRUE)>>),
    Payload(SegThree, "claims",
            <<Claim(KeyUserId, S("b"), TRUE), Claim(KeyUid, S("c"), TRUE),
              Claim(KeySub, S("d"), TRUE)>>),
    Payload(SegSubUid, "claims",
            <<Claim(KeySub, S("z"), TRUE), Claim(KeyUid, S("c"), TRUE)>>),
    Payload(SegNoClaims, "claims", <<>>),
    Payload(SegArray, "other", <<>>),
    Payload(SegFalsy, "claims",
            <<Claim(KeyId, S("None"), FALSE), Claim(KeyUserId, S("False"), FALSE),
              Claim(KeyUid, S("True"), TRUE)>>),
    Payload(SegCutJson, "undecodable", <<>>),
    Payload(SegStrayByte, "claims", <<Claim(KeyId, S("7"), TRUE)>>),
    Payload(SegName, "claims", <<>>),
    Payload(SegString, "other", <<>>),
    Payload(SegSpaced, "claims", <<Claim(KeyUid, S("42"), TRUE)>>),
    Payload(SegTwice, "claims", <<Claim(KeyId, S("b"), TRUE)>>),
    Payload(SegBangs, "claims", <<Claim(KeyId, S("1"), TRUE)>>),
    Payload(SegPadded1, "claims", <<Claim(KeyId, S("1"), TRUE)>>),
    Payload(SegLong1, "undecodable", <<>>),
    Payload(SegX, "undecodable", <<>>),
    Payload(<<>>, "undecodable", <<>>),
    Payload(SegPadded0, "claims", <<Claim(KeyId, S("u1"), TRUE)>>),
    Payload(SegOnlyBangs, "undecodable", <<>>),
    Payload(SegNonAscii, "undecodable", <<>>),
    Payload(SegIdUser, "claims",
            <<Claim(KeyId, S("a"), TRUE), Claim(KeyUserId, S("b"), TRUE)>>) }

Dot == S(".")
HeaderDot == S("h.")
DotSig == S(".s")
TwoBefore == S("a.x.")

UidCase(token, segment, kind, claims) ==
  [token |-> token, segment |-> segment, kind |-> kind, claims |-> claims]

UidCases ==
  {UidCase(HeaderDot \o p.seg \o DotSig, p.seg, p.kind, p.claims) : p \in Payloads}
  \cup {UidCase(HeaderDot \o p.seg, p.seg, p.kind, p.claims) : p \in Payloads}
  \cup {UidCase(p.seg, <<>>, "short", <<>>) : p \in Payloads}
  \cup {UidCase(TwoBefore \o p.seg \o DotSig, SegX, "undecodable", <<>>) : p \in Payloads}
  \cup {UidCase(Dot, <<>>, "undecodable", <<>>)}

InitUid == FnInit("_extract_user_id_from_token", UidCases)

ExtractUserIdFromToken ==
  /\ op = "_extract_user_id_from_token"
  /\ ~called
  /\ ret' = ExtractUserId(arg.token)
  /\ called' = TRUE
  /\ UNCHANGED <<callVars, op, arg>>

NextUid == ExtractUserIdFromToken

SpecUid == InitUid /\ [][NextUid]_vars

\* the four claim keys in the documented order
ClaimOrder == <<S("id"), S("user_id"), S("uid"), S("sub")>>

\* string form of the first claim of the order that satisfies Counts
FirstOf(claims, Counts(_)) ==
  LET hits == {k \in 1..Len(ClaimOrder) :
                 \E i \in 1..Len(claims) :
                    claims[i].key = ClaimOrder[k] /\ Counts(claims[i])}
  IN IF hits = {} THEN S("guest")
     ELSE LET k == CHOOSE h \in hits : \A g \in hits : h <= g
              i == CHOOSE j \in 1..Len(claims) : claims[j].key = ClaimOrder[k]
          IN claims[i].text

IsPresent(c) == TRUE
IsTruthy(c) == c.truthy

IsText(x) == x \in Seq(0..1114111)

IsUrlAlphabet(c) ==
  \/ c \in 48..57
  \/ c \in 65..90
  \/ c \in 97..122
  \/ c = 45
  \/ c = 95

AlphabetOnly(seg) == \A i \in 1..Len(seg) : IsUrlAlphabet(seg[i])

\* C6 as stated: total; "guest" for fewer than two segments, for a second
\* segment that fails decoding and for every second segment whose length is
\* 1 mod 4; otherwise the string form of the first present claim.
FirstPresentClaimReturned ==
  called =>
     /\ ~ret.raised
     /\ IsText(ret.value)
     /\ arg.kind \in {"short", "undecodable", "other"} => ret.value = S("guest")
     /\ (arg.kind # "short" /\ Len(arg.segment) % 4 = 1) => ret.value = S("guest")
     /\ arg.kind = "claims" => ret.value = FirstOf(arg.claims, IsPresent)

\* C6 amended: total, never raising; "guest" for fewer than two segments,
\* for a second segment that fails base64url or JSON decoding (as every
\* segment made of base64url alphabet characters only with a length of
\* 1 mod 4 does) and for a JSON value that is not an object; otherwise the
\* string form of the first claim among id, user_id, uid, sub whose value is
\* truthy, or "guest" when none of the four has a truthy value.
FirstTruthyClaimReturned ==
  called =>
     /\ ~ret.raised
     /\ IsText(ret.value)
     /\ arg.kind \in {"short", "undecodable", "other"} => ret.value = S("guest")
     /\ (arg.kind # "short" /\ AlphabetOnly(arg.segment) /\ Len(arg.segment) % 4 = 1)
           => ret.value = S("guest")
     /\ arg.kind = "claims" => ret.value = FirstOf(arg.claims, IsTruthy)

\* a falsy id was passed over for the sub claim
FalsyClaimSkipped ==
  /\ called
  /\ arg.segment = SegZeroSub
  /\ arg.kind = "claims"
  /\ ret.value = S("s9")

(***************************************************************************)
(* _build_request_body(messages, model, chat_id, **kwargs).  Each input    *)
(* model name comes with what it contains (ignoring case for "thinking"    *)
(* and "search") and whether MODEL_MAPPING knows it.                       *)
(***************************************************************************)
ModelCase(name, thinking, search, v45, known) ==
  [name |-> name, thinking |-> thinking, search |-> search, v45 |-> v45,
   known |-> known]

ModelCases ==
  { ModelCase(S("GLM-4.5"), FALSE, FALSE, TRUE, TRUE),
    ModelCase(S("GLM-4.5-Thinking"), TRUE, FALSE, TRUE, TRUE),
    ModelCase(S("GLM-4.5-Search"), FALSE, TRUE, TRUE, TRUE),
    ModelCase(S("GLM-4.5-Air"), FALSE, FALSE, TRUE, TRUE),
    ModelCase(S("GLM-4.6"), FALSE, FALSE, FALSE, TRUE),
    ModelCase(S("GLM-4.6-Thinking"), TRUE, FALSE, FALSE, TRUE),
    ModelCase(S("GLM-4.6-Search"), FALSE, TRUE, FALSE, TRUE),
    ModelCase(S("glm-4.5-thinking"), TRUE, FALSE, TRUE, FALSE),
    ModelCase(S("GLM-4.5-THINKING"), TRUE, FALSE, TRUE, FALSE),
    ModelCase(S("glm-4.5-search"), FALSE, TRUE, TRUE, FALSE),
    ModelCase(S("GLM-4.6-SEARCH"), FALSE, TRUE, FALSE, FALSE),
    ModelCase(S("Researching-4.5"), FALSE, TRUE, TRUE, FALSE),
    ModelCase(S("ThinkingSearch-4.5"), TRUE, TRUE, TRUE, FALSE),
    ModelCase(S("SEARCH-Thinking-4x5"), TRUE, TRUE, FALSE, FALSE),
    ModelCase(S("thinkin-searc"), FALSE, FALSE, FALSE, FALSE),
    ModelCase(S("THINK-ING 4.5"), FALSE, FALSE, TRUE, FALSE),
    ModelCase(S("gpt-4"), FALSE, FALSE, FALSE, FALSE),
    ModelCase(<<>>, FALSE, FALSE, FALSE, FALSE) }

ToolDefs == <<S("get_weather")>>

BodyKwargs ==
  [ stream : {NoneB, SomeV(TRUE), SomeV(FALSE)},
    temperature : {NoneV, SomeV(1)},
    max_tokens : {NoneV, SomeV(5)},
    tools : {NoneL, SomeV(ToolDefs), SomeV(<<>>)} ]

BodyCases == [model : ModelCases, kwargs : BodyKwargs]

InitBody == FnInit("_build_request_body", BodyCases)

BuildRequestBodyCall ==
  /\ op = "_build_request_body"
  /\ ~called
  /\ ret' = Returned(BuildRequestBody(<<Msg("user", Some(TextHi))>>, arg.model.name,
                                      GenerateUuid(1), arg.kwargs, GenerateUuid(2)))
  /\ called' = TRUE
  /\ UNCHANGED <<client, pc, req, ctx, sent, seen, nsig, conn, wire, pos, yielded,
                 full_content, reasoning_content, result, err, calls, op, arg>>
  /\ nuuid' = nuuid + 1

NextBody == BuildRequestBodyCall

SpecBody == InitBody /\ [][NextBody]_vars

\* C7: no tools field for a model name containing "thinking" in any case,
\* even with tool definitions supplied; the reasoning flag set exactly for
\* those names; the web-search flags set exactly for names containing
\* "search" in any case; the search-capability identifier only with
\* "search" and "4.5"; an unknown name mapped to the default upstream id,
\* without raising.
ModelFlagsFollowName ==
  called =>
     LET body == ret.value
         m == arg.model
     IN /\ ~ret.raised
        /\ m.thinking => ~body.tools.set
        /\ body.features.enable_thinking = m.thinking
        /\ body.features.web_search = m.search
        /\ body.features.auto_web_search = m.search
        /\ (\E i \in 1..Len(body.mcp_servers) : body.mcp_servers[i] = S("deep-web-search"))
              => (m.search /\ m.v45)
        /\ ~m.known =>
              /\ body.model = S("0727-360B-API")
              /\ body.model_item.id = S("0727-360B-API")

\* tools were supplied for an unknown upper-case thinking name and dropped
ToolsDroppedForThinking ==
  /\ called
  /\ arg.model.name = S("GLM-4.5-THINKING")
  /\ arg.kwargs.tools = SomeV(ToolDefs)
  /\ ~ret.value.tools.set
  /\ ret.value.features.enable_thinking
  /\ ret.value.model = S("0727-360B-API")

(***************************************************************************)
(* get_content_from_chunk(chunk).  Each input line comes with whether it   *)
(* is a "data: " frame carrying a chat:completion event and, if so, the    *)
(* value of its delta_content (the empty text when the event has none).    *)
(***************************************************************************)
ChunkPayload(text, event, delta) == [text |-> text, event |-> event, delta |-> delta]

ChunkPayloads ==
  { ChunkPayload(S("{\"type\":\"chat:completion\",\"data\":{\"phase\":\"answer\",\"delta_content\":\"Hi\"}}"),
                 TRUE, JStr(TextHi)),
    ChunkPayload(S("{\"type\":\"chat:completion\",\"data\":{\"phase\":\"thinking\",\"delta_content\":\"A\"}}"),
                 TRUE, JStr(TextA)),
    ChunkPayload(S("{\"type\":\"chat:completion\",\"data\":{\"phase\":\"other\",\"delta_content\":\"x\"}}"),
                 TRUE, JStr(TextX)),
    ChunkPayload(S("{\"type\":\"chat:completion\",\"data\":{\"delta_content\":\"\"}}"),
                 TRUE, JStr(<<>>)),
    ChunkPayload(S("{\"type\":\"chat:completion\",\"data\":{}}"), TRUE, JStr(<<>>)),
    ChunkPayload(S("{\"type\":\"chat:completion\"}"), TRUE, JStr(<<>>)),
    ChunkPayload(S("{\"type\":\"chat:completion\",\"data\":{\"delta_content\":null}}"),
                 TRUE, JNull),
    ChunkPayload(S("{\"type\":\"chat:completion\",\"data\":{\"delta_content\":5}}"),
                 TRUE, JNum(5)),
    ChunkPayload(S("{\"type\":\"other\",\"data\":{\"delta_content\":\"X\"}}"),
                 FALSE, JStr(<<>>)),
    ChunkPayload(S("{\"data\":{\"delta_content\":\"X\"}}"), FALSE, JStr(<<>>)),
    ChunkPayload(S("{\"type\":\"chat:completion\",\"data\":{\"delta_content\":\"X\"}"),
                 FALSE, JStr(<<>>)),
    ChunkPayload(S("[DONE]"), FALSE, JStr(<<>>)),
    ChunkPayload(S("[1]"), FALSE, JStr(<<>>)),
    ChunkPayload(S("7"), FALSE, JStr(<<>>)),
    ChunkPayload(S("not-a-data-line"), FALSE, JStr(<<>>)),
    ChunkPayload(<<>>, FALSE, JStr(<<>>)) }

PrefixData == S("data: ")
PrefixDataWide == S("data:   ")
ChunkPrefixes == {PrefixData, PrefixDataWide}
ChunkNonPrefixes == {<<>>, S("data:"), S("DATA: "), S(" data: "), S("event: ")}
ChunkSuffixes == {<<>>, NL, S("  ")}

ChunkCase(chunk, event, delta) == [chunk |-> chunk, event |-> event, delta |-> delta]

ChunkCases ==
  {ChunkCase(pre \o p.text \o suf, p.event, p.delta) :
     pre \in ChunkPrefixes, p \in ChunkPayloads, suf \in ChunkSuffixes}
  \cup {ChunkCase(pre \o p.text \o suf, FALSE, JStr(<<>>)) :
          pre \in ChunkNonPrefixes, p \in ChunkPayloads, suf \in ChunkSuffixes}

InitChunk == FnInit("get_content_from_chunk", ChunkCases)

GetContentFromChunkCall ==
  /\ op = "get_content_from_chunk"
  /\ ~called
  /\ ret' = GetContentFromChunk(arg.chunk)
  /\ called' = TRUE
  /\ UNCHANGED <<callVars, op, arg>>

NextChunk == GetContentFromChunkCall

SpecChunk == InitChunk /\ [][NextChunk]_vars

\* C8: get_content_from_chunk never raises and always returns text: the
\* empty text for a line that is not a "data: " frame, is the terminator,
\* fails JSON parsing or lacks type chat:completion, and otherwise the
\* delta_content text of the event.
ChunkContentIsText ==
  called =>
     /\ ~ret.raised
     /\ ret.value.t = "str"
     /\ ~arg.event => ret.value = JStr(<<>>)
     /\ arg.event => ret.value = arg.delta

\* what the method does return: the delta_content value as it is, text or not
ChunkContentIsDeltaValue ==
  called =>
     /\ ~ret.raised
     /\ ~arg.event => ret.value = JStr(<<>>)
     /\ arg.event => ret.value = arg.delta

\* a completion event with a null delta_content came back as None
NullDeltaReturned ==
  /\ called
  /\ arg.event
  /\ arg.delta = JNull
  /\ ret.value = JNull

(***************************************************************************)
(* _generate_signature(message_text, request_id, timestamp_ms, user_id),   *)
(* called for two timestamps with the other arguments equal.  Each         *)
(* timestamp comes with its decimal text and its 5-minute window.          *)
(***************************************************************************)
Stamp(ms, text, window) == [ms |-> ms, text |-> text, window |-> window]

Stamps ==
  { Stamp(0, S("0"), 0),
    Stamp(1, S("1"), 0),
    Stamp(299999, S("299999"), 0),
    Stamp(300000, S("300000"), 1),
    Stamp(300001, S("300001"), 1),
    Stamp(599999, S("599999"), 1),
    Stamp(600000, S("600000"), 2),
    Stamp(899999, S("899999"), 2),
    Stamp(900000, S("900000"), 3),
    Stamp(1762214400, S("1762214400"), 5874) }

SigCases ==
  [ t1 : Stamps,
    t2 : Stamps,
    request_id : {GenerateUuid(1)},
    user_id : {S("guest"), S("u1")},
    message_text : {<<>>, S("hi|there")} ]

InitSig == FnInit("_generate_signature", SigCases)

GenerateSignatureCall ==
  /\ op = "_generate_signature"
  /\ ~called
  /\ ret' = Returned(
       [ first |-> GenerateSignature(signing_secret, arg.message_text, arg.request_id,
                                     arg.t1.ms, arg.user_id),
         second |-> GenerateSignature(signing_secret, arg.message_text, arg.request_id,
                                      arg.t2.ms, arg.user_id) ])
  /\ called' = TRUE
  /\ UNCHANGED <<callVars, op, arg>>

NextSig == GenerateSignatureCall

SpecSig == InitSig /\ [][NextSig]_vars

\* the canonical string written out for an input
CanonicalText(a, t) ==
  S("requestId,") \o a.request_id \o S(",timestamp,") \o t.text
    \o S(",user_id,") \o a.user_id \o S("|") \o a.message_text \o S("|") \o t.text

\* C9: two timestamps of one 5-minute window give the same derived key;
\* two timestamps one window apart give different layer-1 HMAC inputs and
\* keys; equal arguments give equal signatures; the signature is the HMAC
\* under the derived key of the canonical string
\* "requestId,{request_id},timestamp,{timestamp_ms},user_id,{identity}|{message_text}|{timestamp_ms}".
SignatureWindowed ==
  called =>
     LET a == ret.value.first
         b == ret.value.second
     IN /\ ~ret.raised
        /\ arg.t1.window = arg.t2.window => a.key = b.key
        /\ (arg.t1.window - arg.t2.window) \in {-1, 1} =>
              /\ a.key.msg # b.key.msg
              /\ a.key # b.key
        /\ arg.t1.ms = arg.t2.ms => a = b
        /\ a.key.key = S("junjie")
        /\ a.msg = CanonicalText(arg, arg.t1)
        /\ b.msg = CanonicalText(arg, arg.t2)

\* two different timestamps of one window were signed under one key
SameWindowSameKey ==
  /\ called
  /\ arg.t1.ms = 300000
  /\ arg.t2.ms = 599999
  /\ ret.value.first.key = ret.value.second.key
  /\ ret.value.first # ret.value.second

====
